---- MODULE Spec2Model ----
(***************************************************************************)
(* Primitive-cell search of spglib (src/primitive.c).                      *)
(*                                                                         *)
(* A double is an exact rational <<n, d>> (d > 0, lowest terms).  A        *)
(* tolerance is a fixed-point number: an integer count of 1/TolScale.      *)
(* Matrices are <<row1, row2, row3>>, as double[3][3] in the source.       *)
(***************************************************************************)
EXTENDS Integers, Sequences, FiniteSets, TLC

(* ------------------------------------------------------------------ *)
(* Rational arithmetic standing for C double arithmetic.               *)
(* ------------------------------------------------------------------ *)
Abs(n) == IF n < 0 THEN -n ELSE n

RECURSIVE GCD(_, _)
GCD(a, b) == IF b = 0 THEN a ELSE GCD(b, a % b)

Norm(n, d) ==
  LET s == IF d < 0 THEN -1 ELSE 1
      g == GCD(Abs(n), Abs(d))
  IN  IF n = 0 THEN <<0, 1>> ELSE <<(s * n) \div g, (s * d) \div g>>

Q(n, d) == Norm(n, d)
RZero == <<0, 1>>
ROne == <<1, 1>>
RAdd(a, b) == Norm(a[1] * b[2] + b[1] * a[2], a[2] * b[2])
RSub(a, b) == Norm(a[1] * b[2] - b[1] * a[2], a[2] * b[2])
RMul(a, b) == Norm(a[1] * b[1], a[2] * b[2])
RDiv(a, b) == Norm(a[1] * b[2], a[2] * b[1])
RLess(a, b) == a[1] * b[2] < b[1] * a[2]

(* mathfunc: double mat_Dabs(a) *)
mat_Dabs(a) == <<Abs(a[1]), a[2]>>

(* mathfunc: int mat_Nint(a): (int)(a + 0.5) for a >= 0, (int)(a - 0.5)    *)
(* for a < 0, the cast truncating toward zero.                             *)
mat_Nint(a) ==
  LET m == (2 * Abs(a[1]) + a[2]) \div (2 * a[2])
  IN  IF a[1] < 0 THEN -m ELSE m

(* mathfunc: double mat_Dmod1(a): a folded into [0, 1) *)
mat_Dmod1(a) ==
  LET fl == a[1] \div a[2]
  IN  RSub(a, <<fl, 1>>)

(* ------------------------------------------------------------------ *)
(* 3x3 matrices and 3-vectors (mathfunc).                              *)
(* ------------------------------------------------------------------ *)
I3 == 1..3

(* the 3-vector and the 3x3 matrix with the given entries *)
Vec3(e(_)) == <<e(1), e(2), e(3)>>
Mat3(e(_, _)) ==
  <<<<e(1, 1), e(1, 2), e(1, 3)>>,
    <<e(2, 1), e(2, 2), e(2, 3)>>,
    <<e(3, 1), e(3, 2), e(3, 3)>>>>

mat_get_determinant_d3(a) ==
  RAdd(RAdd(RMul(a[1][1], RSub(RMul(a[2][2], a[3][3]), RMul(a[2][3], a[3][2]))),
            RMul(a[1][2], RSub(RMul(a[2][3], a[3][1]), RMul(a[2][1], a[3][3])))),
       RMul(a[1][3], RSub(RMul(a[2][1], a[3][2]), RMul(a[2][2], a[3][1]))))

mat_get_determinant_i3(a) ==
    a[1][1] * (a[2][2] * a[3][3] - a[2][3] * a[3][2])
  + a[1][2] * (a[2][3] * a[3][1] - a[2][1] * a[3][3])
  + a[1][3] * (a[2][1] * a[3][2] - a[2][2] * a[3][1])

(* index following i cyclically in 1..3 *)
Nxt(i) == (i % 3) + 1

(* mat_inverse_matrix_d3(m, a, 0): cofactors over the determinant.  With   *)
(* precision 0 the determinant test never rejects; every call of the model *)
(* has a nonzero determinant.                                              *)
mat_inverse_matrix_d3(a) ==
  LET det == mat_get_determinant_d3(a)
      cof(i, j) == RSub(RMul(a[Nxt(j)][Nxt(i)], a[Nxt(Nxt(j))][Nxt(Nxt(i))]),
                        RMul(a[Nxt(j)][Nxt(Nxt(i))], a[Nxt(Nxt(j))][Nxt(i)]))
      inv(i, j) == RDiv(cof(i, j), det)
  IN  Mat3(inv)

mat_multiply_matrix_d3(a, b) ==
  LET m(i, j) ==
        RAdd(RAdd(RMul(a[i][1], b[1][j]), RMul(a[i][2], b[2][j])), RMul(a[i][3], b[3][j]))
  IN  Mat3(m)

mat_multiply_matrix_vector_d3(a, b) ==
  LET v(i) == RAdd(RAdd(RMul(a[i][1], b[1]), RMul(a[i][2], b[2])), RMul(a[i][3], b[3]))
  IN  Vec3(v)

mat_cast_matrix_3d_to_3i(a) ==
  LET m(i, j) == mat_Nint(a[i][j])
  IN  Mat3(m)

mat_cast_matrix_3i_to_3d(a) ==
  LET m(i, j) == <<a[i][j], 1>>
  IN  Mat3(m)

(* an integer matrix given by rows, as a matrix of doubles *)
IntMat(m) == mat_cast_matrix_3i_to_3d(m)


(* ------------------------------------------------------------------ *)
(* Program constants (src/primitive.c) and the fixed-point tolerance.  *)
(* ------------------------------------------------------------------ *)
NUM_ATTEMPT == 20
(* REDUCE_RATE 0.95 = ReduceNum / ReduceDen *)
ReduceNum == 19
ReduceDen == 20
(* tolerances are counted in units of 1 / TolScale *)
TolScale == 100000

(* the statement tolerance *= REDUCE_RATE left out *)
Reduce_none(t) == t

(* the statement tolerance *= REDUCE_RATE executed twice *)
Reduce_twice(t) == (((t * ReduceNum) \div ReduceDen) * ReduceNum) \div ReduceDen

(* tolerance *= REDUCE_RATE *)
Reduce(t) == (t * ReduceNum) \div ReduceDen

(* a fixed-point tolerance as a double *)
TolD(t) == Norm(t, TolScale)

(* ------------------------------------------------------------------ *)
(* Bounds of the model.                                                *)
(* ------------------------------------------------------------------ *)
(* Delaunay reduction may shear the basis by 0..MaxShear *)
MaxShear == 1
(* a failing trimmer may have written up to MaxJunk leading mapping entries *)
MaxJunk == 1

(* ------------------------------------------------------------------ *)
(* Input cells.                                                        *)
(* ------------------------------------------------------------------ *)
V3(a, b, c) == <<a, b, c>>
Half == Q(1, 2)
ZeroVec == V3(RZero, RZero, RZero)

NULL == [st |-> "null"]
(* the value of `result` while the call has not returned *)
Running == [st |-> "running"]

CellA == [size |-> 2,
          lattice |-> IntMat(<<<<1, 1, 0>>, <<0, 1, 0>>, <<0, 0, 1>>>>),
          position |-> <<ZeroVec, V3(Half, Half, Half)>>,
          types |-> <<1, 1>>]

CellB == [size |-> 3,
          lattice |-> IntMat(<<<<2, 0, 0>>, <<1, 1, 0>>, <<0, 0, 1>>>>),
          position |-> <<ZeroVec, V3(Half, RZero, RZero), V3(Q(1, 4), Half, Half)>>,
          types |-> <<1, 1, 2>>]

(* the calls prm_get_primitive(cell, symprec, angle_tolerance) explored *)
Inputs == { [cell |-> CellA, symprec |-> 30000, angle_tolerance |-> 5],
            [cell |-> CellB, symprec |-> 1000, angle_tolerance |-> -1] }

(* ------------------------------------------------------------------ *)
(* Vector lists (VecDBL) the symmetry collaborator may return.         *)
(* ------------------------------------------------------------------ *)
TransIdentity == <<ZeroVec>>
TransNoisy == <<ZeroVec, V3(Q(9, 20), Half, Half)>>
TransBogus == <<ZeroVec, V3(Half, RZero, RZero), V3(RZero, Half, RZero)>>
TransRaw == <<ZeroVec, V3(RZero, Half, RZero), V3(Q(3, 5), RZero, RZero)>>

(* sym_get_pure_translation: the lists it may return when it succeeds *)
PureTransChoices == {TransIdentity, TransNoisy, TransBogus, TransRaw}

(* ------------------------------------------------------------------ *)
(* get_translation_candidates (src/primitive.c 471-502).               *)
(* ------------------------------------------------------------------ *)
UnitVec(i) ==
  LET u(j) == IF i = j THEN ROne ELSE RZero
  IN  Vec3(u)

(* the writes with the first loop copying pure_trans->vec[i], the        *)
(* identity included                                                     *)
CandidateWrites_from_zero(pure_trans) ==
  LET multi == Len(pure_trans)
      passes == IF multi > 1 THEN multi - 1 ELSE 0
  IN  [n \in 1..passes |-> [idx |-> n - 1, val |-> pure_trans[n]]]
      \o [i \in I3 |-> [idx |-> (i - 1) + multi - 1, val |-> UnitVec(i)]]

(* the writes vectors->vec[idx] = val in program order, idx 0-based *)
CandidateWrites(pure_trans) ==
  LET multi == Len(pure_trans)
      \* the loop i < multi - 1 makes no pass when multi <= 1
      passes == IF multi > 1 THEN multi - 1 ELSE 0
  IN  [n \in 1..passes |-> [idx |-> n - 1, val |-> pure_trans[n + 1]]]
      \o [i \in I3 |-> [idx |-> (i - 1) + multi - 1, val |-> UnitVec(i)]]

(* the list of multi + 2 slots after the writes; slot n holds vec[n - 1] *)
get_translation_candidates(pure_trans) ==
  LET w == CandidateWrites(pure_trans)
      last(n) == CHOOSE x \in DOMAIN w :
                   /\ w[x].idx = n - 1
                   /\ \A y \in DOMAIN w : w[y].idx = n - 1 => y <= x
  IN  [n \in 1..(Len(pure_trans) + 2) |->
         IF \E x \in DOMAIN w : w[x].idx = n - 1 THEN w[last(n)].val ELSE "unset"]

(* ------------------------------------------------------------------ *)
(* get_primitive_lattice_vectors, Stage B (src/primitive.c 402-469).   *)
(* ------------------------------------------------------------------ *)
(* |det| of the triple (i, j, k), 0-based, carried into Cartesian space *)
TripleVolume(vectors, lattice, i, j, k) ==
  LET tmp_lattice == <<mat_multiply_matrix_vector_d3(lattice, vectors[i + 1]),
                       mat_multiply_matrix_vector_d3(lattice, vectors[j + 1]),
                       mat_multiply_matrix_vector_d3(lattice, vectors[k + 1])>>
  IN  mat_Dabs(mat_get_determinant_d3(tmp_lattice))

(* the test of lines 432-433 comparing with size - 1 *)
TriplePasses_off_by_one(vectors, lattice, symprec, i, j, k) ==
  LET size == Len(vectors)
      initial_volume == mat_Dabs(mat_get_determinant_d3(lattice))
      volume == TripleVolume(vectors, lattice, i, j, k)
  IN  /\ RLess(TolD(symprec), volume)
      /\ mat_Nint(RDiv(initial_volume, volume)) = size - 1

(* the test of lines 432-433 comparing with the group order minus two *)
TriplePasses_minus_two(vectors, lattice, symprec, i, j, k) ==
  LET size == Len(vectors)
      initial_volume == mat_Dabs(mat_get_determinant_d3(lattice))
      volume == TripleVolume(vectors, lattice, i, j, k)
  IN  /\ RLess(TolD(symprec), volume)
      /\ mat_Nint(RDiv(initial_volume, volume)) = (size - 2) - 2

(* the test of lines 432-433 *)
TriplePasses(vectors, lattice, symprec, i, j, k) ==
  LET size == Len(vectors)
      initial_volume == mat_Dabs(mat_get_determinant_d3(lattice))
      volume == TripleVolume(vectors, lattice, i, j, k)
  IN  /\ RLess(TolD(symprec), volume)
      /\ mat_Nint(RDiv(initial_volume, volume)) = size - 2

(* the loops of lines 419-442 going on past a passing triple: the last   *)
(* passing triple, or <<>>                                               *)
RECURSIVE FirstTriple_last(_, _, _, _, _, _)
FirstTriple_last(vectors, lattice, symprec, i, j, k) ==
  LET size == Len(vectors)
  IN  IF i >= size THEN <<>>
      ELSE IF j >= size THEN FirstTriple_last(vectors, lattice, symprec, i + 1, i + 2, i + 3)
      ELSE IF k >= size THEN FirstTriple_last(vectors, lattice, symprec, i, j + 1, j + 2)
      ELSE LET rest == FirstTriple_last(vectors, lattice, symprec, i, j, k + 1)
           IN  IF rest # <<>> THEN rest
               ELSE IF TriplePasses(vectors, lattice, symprec, i, j, k) THEN <<i, j, k>>
               ELSE <<>>

(* the three nested loops of lines 419-442, resumed at (i, j, k):       *)
(* the first passing triple, or <<>> when the loops run out             *)
RECURSIVE FirstTriple(_, _, _, _, _, _)
FirstTriple(vectors, lattice, symprec, i, j, k) ==
  LET size == Len(vectors)
  IN  IF i >= size THEN <<>>
      ELSE IF j >= size THEN FirstTriple(vectors, lattice, symprec, i + 1, i + 2, i + 3)
      ELSE IF k >= size THEN FirstTriple(vectors, lattice, symprec, i, j + 1, j + 2)
      ELSE IF TriplePasses(vectors, lattice, symprec, i, j, k) THEN <<i, j, k>>
      ELSE FirstTriple(vectors, lattice, symprec, i, j, k + 1)

(* relative_lattice[j][i] = min_vectors[i][j] (lines 451-455) *)
RelativeLattice(vectors, t) ==
  LET m(r, c) == vectors[t[c] + 1][r]
  IN  Mat3(m)

(* lines 457-465 without the determinant check of line 459 *)
CleanLattice_unchecked(relative_lattice, size) ==
  mat_inverse_matrix_d3(
    mat_cast_matrix_3i_to_3d(
      mat_cast_matrix_3d_to_3i(mat_inverse_matrix_d3(relative_lattice))))

(* lines 457-465: the relative lattice cleaned to an exact integer relation *)
CleanLattice(relative_lattice, size) ==
  LET inv_mat_dbl == mat_inverse_matrix_d3(relative_lattice)
      inv_mat_int == mat_cast_matrix_3d_to_3i(inv_mat_dbl)
  IN  IF Abs(mat_get_determinant_i3(inv_mat_int)) = size - 2
      THEN mat_inverse_matrix_d3(mat_cast_matrix_3i_to_3d(inv_mat_int))
      ELSE relative_lattice

(* the whole function: ok = its return value, prim_lattice its output *)
get_primitive_lattice_vectors(vectors, cell, symprec) ==
  LET t == FirstTriple(vectors, cell.lattice, symprec, 0, 1, 2)
  IN  IF t = <<>>
      THEN [ok |-> FALSE]
      ELSE [ok |-> TRUE,
            triple |-> t,
            prim_lattice |->
              mat_multiply_matrix_d3(cell.lattice,
                                     CleanLattice(RelativeLattice(vectors, t), Len(vectors)))]

(* ------------------------------------------------------------------ *)
(* Collaborators outside primitive.c: what they may return.            *)
(* ------------------------------------------------------------------ *)
(* the sub-lists of a list that keep its first entry (the identity) and  *)
(* the order of the others                                               *)
SubLists(vec) ==
  LET n == Len(vec)
      pick(S) == [x \in 1..Cardinality(S) |->
                    vec[CHOOSE y \in S : Cardinality({z \in S : z < y}) = x - 1]]
  IN  {pick(S) : S \in {T \in SUBSET (1..n) : 1 \in T}}

(* sym_reduce_pure_translation: re-validates the translations it is given *)
ReduceChoices(vec) == IF vec = <<>> THEN {<<>>} ELSE SubLists(vec)

(* del_delaunay_reduce: a basis of the same lattice, the volume kept up   *)
(* to its sign: the basis as it is, or sheared by k in 1..MaxShear with    *)
(* all axes flipped when k is odd                                          *)
Flip(k) == IF k % 2 = 1 THEN -1 ELSE 1

Unimodular ==
  {IntMat(<<<<Flip(k), Flip(k) * k, 0>>, <<0, Flip(k), 0>>, <<0, 0, Flip(k)>>>>) :
     k \in 0..MaxShear}

DelaunayChoices(lattice) == {mat_multiply_matrix_d3(lattice, u) : u \in Unimodular}

(* index mappings a successful cel_trim_cell may write: atom 0 gets index *)
(* 0 and every new index is the next unused one                           *)
TrimMappings(n) ==
  {m \in [1..n -> 0..(n - 1)] :
     \A i \in 1..n : m[i] <= Cardinality({m[x] : x \in 1..(i - 1)})}

(* a position carried by trans_mat and folded into [0, 1) (mat_Dmod1) *)
FoldedPosition(trans_mat, position) ==
  LET moved == mat_multiply_matrix_vector_d3(trans_mat, position)
  IN  <<mat_Dmod1(moved[1]), mat_Dmod1(moved[2]), mat_Dmod1(moved[3])>>

MapMax(m) == CHOOSE x \in {m[i] : i \in DOMAIN m} : \A i \in DOMAIN m : m[i] <= x

(* the atoms of cell carried into new_lattice, one per mapping index *)
TrimmedCell(cell, new_lattice, m) ==
  LET size == MapMax(m) + 1
      first(j) == CHOOSE i \in 1..cell.size :
                    m[i] = j /\ \A x \in 1..cell.size : m[x] = j => i <= x
      trans_mat == mat_multiply_matrix_d3(mat_inverse_matrix_d3(new_lattice), cell.lattice)
  IN  [size |-> size,
       lattice |-> new_lattice,
       types |-> [j \in 1..size |-> cell.types[first(j - 1)]],
       position |-> [j \in 1..size |-> FoldedPosition(trans_mat, cell.position[first(j - 1)])]]

(* what a failing cel_trim_cell may leave in the mapping buffer *)
TrimJunk(mapping_table) ==
  {[i \in DOMAIN mapping_table |-> IF i <= j THEN 0 ELSE mapping_table[i]] :
     j \in 0..(IF MaxJunk < Len(mapping_table) THEN MaxJunk ELSE Len(mapping_table))}

(* ------------------------------------------------------------------ *)
(* The heap: vector lists and the result record.                       *)
(* ------------------------------------------------------------------ *)
Live(vec) == [st |-> "live", vec |-> vec]
IsNull(p) == p.st = "null"

Clean == [leak |-> FALSE, double_free |-> FALSE, read_freed |-> FALSE]

(* the bookkeeping of mat_free_VecDBL(p) *)
NoteFree(m, p) == IF p.st = "freed" THEN [m EXCEPT !.double_free = TRUE] ELSE m
(* the bookkeeping of p = <a new list> *)
NoteAssign(m, p) == IF p.st = "live" THEN [m EXCEPT !.leak = TRUE] ELSE m
(* the bookkeeping of a read through p *)
NoteRead(m, p) == IF p.st # "live" THEN [m EXCEPT !.read_freed = TRUE] ELSE m

(* the bookkeeping of a return that drops the local pointer p *)
NoteLost(m, p) == IF p.st = "live" THEN [m EXCEPT !.leak = TRUE] ELSE m

(* p left as it was: the list is neither freed nor the pointer cleared *)
Release_forgotten(p) == p

(* mat_free_VecDBL(p); p = NULL;  the value p is left with *)
Release(p) == NULL

(* line 332 reading the size of the candidate list instead *)
TranslationCount_candidates(pure_trans_reduced) == Len(pure_trans_reduced.vec) + 2

(* line 332: multi = pure_trans_reduced->size *)
TranslationCount(pure_trans_reduced) == Len(pure_trans_reduced.vec)

(* lines 355-365: the first multi translations, copied into tmp_vec *)
RefineInput(pure_trans_reduced, multi) == SubSeq(pure_trans_reduced.vec, 1, multi)

(* line 178: pure_trans->size == 1 *)
IsTrivial(vec) == Len(vec) = 1

(* the loop condition written attempt <= NUM_ATTEMPT *)
AttemptsLeft_inclusive(a) == a <= NUM_ATTEMPT

(* the loop conditions attempt < NUM_ATTEMPT (lines 172 and 331) *)
AttemptsLeft(a) == a < NUM_ATTEMPT

(* ------------------------------------------------------------------ *)
(* prm_alloc_primitive and prm_free_primitive (src/primitive.c 71-141) *)
(* ------------------------------------------------------------------ *)
ZeroMat ==
  LET z(i, j) == RZero
  IN  Mat3(z)

(* the mallocs of prm_alloc_primitive(size), in order *)
AllocSteps(size) ==
  IF size > 0 THEN <<"record", "t_mat", "mapping_table">> ELSE <<"record", "t_mat">>

(* no block of the record is allocated *)
NoBlocks ==
  [record |-> "none", t_mat |-> "none", mapping_table |-> "none", cell |-> "none"]

(* the record without the loop of lines 115-117: the mapping entries are *)
(* left as malloc gave them, here 0                                      *)
NewRecord_unset_mapping(size) ==
  [st |-> "live",
   cell |-> NULL,
   mapping_table |-> IF size > 0 THEN Live([i \in 1..size |-> 0]) ELSE NULL,
   size |-> size,
   tolerance |-> 0,
   angle_tolerance |-> -1,
   t_mat |-> Live(ZeroMat)]

(* lines 85-117: the record as prm_alloc_primitive fills it; a malloc'ed   *)
(* array field holds NULL or Live(<its entries>), the cell field NULL or a *)
(* Cell                                                                    *)
NewRecord(size) ==
  [st |-> "live",
   cell |-> NULL,
   mapping_table |-> IF size > 0 THEN Live([i \in 1..size |-> -1]) ELSE NULL,
   size |-> size,
   tolerance |-> 0,
   angle_tolerance |-> -1,
   t_mat |-> Live(ZeroMat)]

(* the blocks of a record all of whose mallocs succeeded *)
NewBlocks(size) ==
  [NoBlocks EXCEPT !.record = "live", !.t_mat = "live",
                   !.mapping_table = IF size > 0 THEN "live" ELSE "none"]

(* prm_alloc_primitive without its NULL tests: the record is handed out    *)
(* whatever malloc returned                                                *)
prm_alloc_primitive_unchecked(size, fail) ==
  [ptr |-> NewRecord(size), heap |-> NewBlocks(size)]

(* fail: the malloc that returns NULL, or "none".  ptr is the value        *)
(* returned, heap the blocks of the record after the call.                 *)
prm_alloc_primitive(size, fail) ==
  CASE fail = "record" -> [ptr |-> NULL, heap |-> NoBlocks]
    [] fail = "t_mat" ->
         [ptr |-> NULL, heap |-> [NoBlocks EXCEPT !.record = "freed"]]
    [] fail = "mapping_table" ->
         [ptr |-> NULL,
          heap |-> [NoBlocks EXCEPT !.record = "freed", !.t_mat = "freed"]]
    [] OTHER -> [ptr |-> NewRecord(size), heap |-> NewBlocks(size)]

(* the releases in the order cell, mapping_table, t_mat, record *)
FreeOrder_cell_first(primitive) ==
  IF IsNull(primitive) THEN <<>>
  ELSE (IF primitive.cell # NULL THEN <<"cell">> ELSE <<>>)
       \o (IF primitive.mapping_table # NULL THEN <<"mapping_table">> ELSE <<>>)
       \o (IF primitive.t_mat # NULL THEN <<"t_mat">> ELSE <<>>)
       \o <<"record">>

(* the blocks prm_free_primitive(primitive) releases, in order *)
FreeOrder(primitive) ==
  IF IsNull(primitive) THEN <<>>
  ELSE (IF primitive.mapping_table # NULL THEN <<"mapping_table">> ELSE <<>>)
       \o (IF primitive.t_mat # NULL THEN <<"t_mat">> ELSE <<>>)
       \o (IF primitive.cell # NULL THEN <<"cell">> ELSE <<>>)
       \o <<"record">>

RECURSIVE FreeBlocks(_, _)
FreeBlocks(h, order) ==
  IF order = <<>> THEN h
  ELSE FreeBlocks([h EXCEPT ![Head(order)] =
                     IF @ = "live" THEN "freed" ELSE "twice"], Tail(order))

(* prm_free_primitive that returns without a free *)
prm_free_primitive_leaky(h, primitive) == h

(* the heap after prm_free_primitive(primitive) *)
prm_free_primitive(h, primitive) == FreeBlocks(h, FreeOrder(primitive))

(* ------------------------------------------------------------------ *)
(* Pieces of get_primitive and get_cell_with_smallest_lattice.         *)
(* ------------------------------------------------------------------ *)
(* the loop of lines 181-183 stopping one atom early *)
IdentityMapping_short(mapping_table, size) ==
  [i \in DOMAIN mapping_table |-> IF i - 1 < size - 1 THEN i - 1 ELSE mapping_table[i]]

(* lines 181-183: mapping_table[i] = i for i < cell->size *)
IdentityMapping(mapping_table, size) ==
  [i \in DOMAIN mapping_table |-> IF i - 1 < size THEN i - 1 ELSE mapping_table[i]]

(* the product of line 215 with its factors exchanged *)
TMat_swapped(prim_lattice, lattice) ==
  mat_multiply_matrix_d3(mat_inverse_matrix_d3(lattice), prim_lattice)

(* lines 214-215: t_mat = primitive->cell->lattice . inverse(cell->lattice) *)
TMat(prim_lattice, lattice) ==
  mat_multiply_matrix_d3(prim_lattice, mat_inverse_matrix_d3(lattice))

(* lines 237-252 with every atom given the type of atom 0 *)
SmallestCell_one_type(cell, min_lat) ==
  LET trans_mat == mat_multiply_matrix_d3(mat_inverse_matrix_d3(min_lat), cell.lattice)
  IN  [size |-> cell.size,
       lattice |-> min_lat,
       types |-> [i \in 1..cell.size |-> cell.types[1]],
       position |-> [i \in 1..cell.size |-> FoldedPosition(trans_mat, cell.position[i])]]

(* lines 237-252: the cell re-expressed in min_lat *)
SmallestCell(cell, min_lat) ==
  LET trans_mat == mat_multiply_matrix_d3(mat_inverse_matrix_d3(min_lat), cell.lattice)
  IN  [size |-> cell.size,
       lattice |-> min_lat,
       types |-> [i \in 1..cell.size |-> cell.types[i]],
       position |-> [i \in 1..cell.size |-> FoldedPosition(trans_mat, cell.position[i])]]

(* ------------------------------------------------------------------ *)
(* State of one call prm_get_primitive(cell, symprec, angle_tolerance) *)
(* ------------------------------------------------------------------ *)
VARIABLES
  arg,                 \* the arguments: cell, symprec, angle_tolerance
  pc,                  \* position in get_primitive and its callees
  attempt,             \* get_primitive: attempt
  tolerance,           \* get_primitive: tolerance
  primitive,           \* get_primitive: primitive (NULL or the record)
  pure_trans,          \* get_primitive: pure_trans
  attempt_i,           \* get_primitive_lattice_vectors_iterative: attempt
  tolerance_i,         \* get_primitive_lattice_vectors_iterative: tolerance
  multi,               \* get_primitive_lattice_vectors_iterative: multi
  pure_trans_reduced,  \* get_primitive_lattice_vectors_iterative
  vectors,             \* get_primitive_lattice_vectors_iterative
  tmp_vec,             \* get_primitive_lattice_vectors_iterative
  prim_lat,            \* get_primitive_cell: prim_lat
  smallest_lat,        \* get_primitive_cell: smallest_lat
  result,              \* Running, or the pointer returned
  heap,                \* the blocks of the result record
  mem,                 \* misuse of vector lists seen so far
  ran,                 \* <<step, tolerance>> of the steps of this attempt
  oom,                 \* the allocation failure met: none, record, attempt
  trim_failed,         \* cel_trim_cell has failed in this call
  nFinder              \* calls of sym_get_pure_translation

locals_i == <<attempt_i, tolerance_i, multi, pure_trans_reduced, vectors, tmp_vec>>
vars == <<arg, pc, attempt, tolerance, primitive, pure_trans, attempt_i, tolerance_i,
          multi, pure_trans_reduced, vectors, tmp_vec, prim_lat, smallest_lat,
          result, heap, mem, ran, oom, trim_failed, nFinder>>

Init ==
  /\ arg \in Inputs
  /\ pc = "alloc"
  /\ attempt = 0
  /\ tolerance = 0
  /\ primitive = NULL
  /\ pure_trans = NULL
  /\ attempt_i = 0
  /\ tolerance_i = 0
  /\ multi = 0
  /\ pure_trans_reduced = NULL
  /\ vectors = NULL
  /\ tmp_vec = NULL
  /\ prim_lat = ZeroMat
  /\ smallest_lat = ZeroMat
  /\ result = Running
  /\ heap = NoBlocks
  /\ mem = Clean
  /\ ran = {}
  /\ oom = "none"
  /\ trim_failed = FALSE
  /\ nFinder = 0

(* get_primitive_lattice_vectors_iterative returns: its locals lapse; p, v *)
(* and t are its three list pointers as the return finds them              *)
LeaveStageA(m, p, v, t) ==
  /\ mem' = NoteLost(NoteLost(NoteLost(m, p), v), t)
  /\ attempt_i' = 0
  /\ tolerance_i' = 0
  /\ pure_trans_reduced' = NULL
  /\ vectors' = NULL
  /\ tmp_vec' = NULL

(* get_primitive_cell returns: its locals lapse *)
LeaveCell ==
  /\ multi' = 0
  /\ prim_lat' = ZeroMat
  /\ smallest_lat' = ZeroMat

(* the steps of the attempt in progress with `new` added; a failed        *)
(* attempt's steps are dropped                                             *)
Ran(new) == IF pc' \in {"free_trans", "cont"} THEN {} ELSE ran \cup new

(* lines 211-218, found: the record p, its cell set, is completed and       *)
(* returned, pure_trans is released                                        *)
Found(p) ==
  /\ primitive' =
       [p EXCEPT
          !.tolerance = tolerance,
          !.angle_tolerance = arg.angle_tolerance,
          !.t_mat = Live(TMat(p.cell.lattice, arg.cell.lattice))]
  /\ pure_trans' = Release(pure_trans)
  /\ result' = primitive'
  /\ pc' = "done"

(* lines 164-171: primitive = prm_alloc_primitive(cell->size) *)
AllocPrimitive ==
  /\ pc = "alloc"
  /\ \E fail \in {"none"} \cup {AllocSteps(arg.cell.size)[x] :
                                  x \in DOMAIN AllocSteps(arg.cell.size)} :
       LET r == prm_alloc_primitive(arg.cell.size, fail)
       IN  /\ primitive' = r.ptr
           /\ heap' = r.heap
           /\ oom' = IF fail = "none" THEN "none" ELSE "record"
           /\ IF IsNull(r.ptr)
              THEN /\ result' = NULL
                   /\ pc' = "done"
                   /\ UNCHANGED <<tolerance, attempt>>
              ELSE /\ tolerance' = arg.symprec
                   /\ attempt' = 0
                   /\ pc' = "attempt"
                   /\ UNCHANGED result
  /\ UNCHANGED <<arg, pure_trans, locals_i, prim_lat, smallest_lat, mem, ran, nFinder,
                 trim_failed>>

(* lines 172-176: pure_trans = sym_get_pure_translation(cell, tolerance) *)
GetPureTranslation ==
  /\ pc = "attempt"
  /\ AttemptsLeft(attempt)
  /\ nFinder' = nFinder + 1
  /\ oom' = "none"
  /\ \/ /\ pure_trans' = NULL
        /\ mem' = NoteAssign(mem, pure_trans)
        /\ pc' = "cont"
     \/ \E t \in PureTransChoices :
          /\ pure_trans' = Live(t)
          /\ mem' = NoteAssign(mem, pure_trans)
          /\ pc' = "dispatch"
  /\ ran' = IF pc' = "cont" THEN {}
             ELSE {<<"sym_get_pure_translation", tolerance>>,
                   <<"size", Len(pure_trans'.vec)>>}
  /\ UNCHANGED <<arg, attempt, tolerance, primitive, locals_i, prim_lat, smallest_lat,
                 result, heap, trim_failed>>

(* lines 205-209: the attempts are used up *)
Exhausted ==
  /\ pc = "attempt"
  /\ ~AttemptsLeft(attempt)
  /\ heap' = prm_free_primitive(heap, primitive)
  /\ primitive' = NULL
  /\ result' = NULL
  /\ pc' = "done"
  /\ UNCHANGED <<arg, attempt, tolerance, pure_trans, locals_i, prim_lat, smallest_lat,
                 mem, ran, oom, nFinder, trim_failed>>

(* lines 178-185 with get_cell_with_smallest_lattice (222-255) *)
SmallestLattice ==
  /\ pc = "dispatch"
  /\ IsTrivial(pure_trans.vec)
  /\ \/ \* del_delaunay_reduce fails
        /\ pc' = "free_trans"
        /\ mem' = NoteRead(mem, pure_trans)
        /\ UNCHANGED <<primitive, pure_trans, result, heap, oom>>
     \/ \* cel_alloc_cell fails
        /\ oom' = "attempt"
        /\ pc' = "free_trans"
        /\ mem' = NoteRead(mem, pure_trans)
        /\ UNCHANGED <<primitive, pure_trans, result, heap>>
     \/ \E min_lat \in DelaunayChoices(arg.cell.lattice) :
          /\ Found([primitive EXCEPT
                      !.cell = SmallestCell(arg.cell, min_lat),
                      !.mapping_table =
                         Live(IdentityMapping(primitive.mapping_table.vec,
                                              arg.cell.size))])
          /\ heap' = [heap EXCEPT !.cell = "live"]
          /\ mem' = NoteFree(NoteRead(mem, pure_trans), pure_trans)
          /\ UNCHANGED oom
  /\ ran' = Ran({<<"del_delaunay_reduce", tolerance>>})
  /\ UNCHANGED <<arg, attempt, tolerance, locals_i, prim_lat, smallest_lat, nFinder,
                 trim_failed>>

(* lines 187-191, 275, 317-329: Stage A is entered, pure_trans is copied *)
StageACopy ==
  /\ pc = "dispatch"
  /\ ~IsTrivial(pure_trans.vec)
  /\ attempt_i' = 0
  /\ \/ \* mat_alloc_VecDBL fails
        /\ pure_trans_reduced' = NULL
        /\ tolerance_i' = 0
        /\ mem' = NoteRead(mem, pure_trans)
        /\ oom' = "attempt"
        /\ pc' = "free_trans"
     \/ /\ pure_trans_reduced' = Live(pure_trans.vec)
        /\ tolerance_i' = tolerance
        /\ mem' = NoteRead(mem, pure_trans)
        /\ pc' = "candidates"
        /\ UNCHANGED oom
  /\ ran' = Ran({<<"get_primitive_lattice_vectors_iterative", tolerance>>})
  /\ UNCHANGED <<arg, attempt, tolerance, primitive, pure_trans, multi, vectors, tmp_vec,
                 prim_lat, smallest_lat, result, heap, nFinder, trim_failed>>

(* lines 331-338: vectors = get_translation_candidates(pure_trans_reduced) *)
Candidates ==
  /\ pc = "candidates"
  /\ AttemptsLeft(attempt_i)
  /\ \/ \* mat_alloc_VecDBL fails
        /\ LeaveStageA(NoteFree(NoteAssign(NoteRead(mem, pure_trans_reduced), vectors),
                                pure_trans_reduced),
                       Release(pure_trans_reduced), NULL, tmp_vec)
        /\ multi' = 0
        /\ oom' = "attempt"
        /\ pc' = "free_trans"
     \/ /\ multi' = TranslationCount(pure_trans_reduced)
        /\ vectors' = Live(get_translation_candidates(pure_trans_reduced.vec))
        /\ mem' = NoteAssign(NoteRead(mem, pure_trans_reduced), vectors)
        /\ pc' = "search"
        /\ UNCHANGED <<pure_trans_reduced, oom, attempt_i, tolerance_i, tmp_vec>>
  /\ ran' = Ran({})
  /\ UNCHANGED <<arg, attempt, tolerance, primitive, pure_trans, prim_lat, smallest_lat,
                 result, heap, nFinder, trim_failed>>

(* lines 391-395: the iterations of Stage A are used up *)
StageAExhausted ==
  /\ pc = "candidates"
  /\ ~AttemptsLeft(attempt_i)
  /\ LeaveStageA(NoteFree(mem, pure_trans_reduced), Release(pure_trans_reduced),
                 vectors, tmp_vec)
  /\ multi' = 0
  /\ pc' = "free_trans"
  /\ ran' = Ran({})
  /\ UNCHANGED <<arg, attempt, tolerance, primitive, pure_trans, prim_lat, smallest_lat,
                 result, heap, oom, nFinder, trim_failed>>

(* lines 341-351: Stage B on the candidates, at Stage A's tolerance *)
Search ==
  /\ pc = "search"
  /\ LET r == get_primitive_lattice_vectors(vectors.vec, arg.cell, tolerance_i)
     IN  IF r.ok
         THEN /\ LeaveStageA(NoteFree(NoteFree(NoteRead(mem, vectors), vectors),
                                      pure_trans_reduced),
                             Release(pure_trans_reduced), Release(vectors), tmp_vec)
              \* line 280: a returned multi of 0 reads as failure
              /\ IF multi = 0
                 THEN /\ pc' = "free_trans"
                      /\ UNCHANGED <<multi, prim_lat>>
                 ELSE /\ pc' = "reduce"
                      /\ prim_lat' = r.prim_lattice
                      /\ UNCHANGED multi
              /\ ran' = Ran({<<"get_primitive_lattice_vectors", tolerance_i>>,
                             <<"multi", multi>>})
         ELSE /\ mem' = NoteRead(mem, vectors)
              /\ ran' = ran \cup {<<"get_primitive_lattice_vectors", tolerance_i>>}
              /\ pc' = "refine"
              /\ UNCHANGED <<prim_lat, vectors, pure_trans_reduced, attempt_i,
                             tolerance_i, multi, tmp_vec>>
  /\ UNCHANGED <<arg, attempt, tolerance, primitive, pure_trans, smallest_lat, result,
                 heap, oom, nFinder, trim_failed>>

(* lines 355-388: the translations are refined, Stage A's tolerance decays *)
Refine ==
  /\ pc = "refine"
  /\ \/ \* mat_alloc_VecDBL fails
        /\ LeaveStageA(NoteFree(NoteFree(NoteAssign(mem, tmp_vec), vectors),
                                pure_trans_reduced),
                       Release(pure_trans_reduced), Release(vectors), NULL)
        /\ multi' = 0
        /\ oom' = "attempt"
        /\ pc' = "free_trans"
        /\ ran' = Ran({})
     \/ \E out \in {NULL} \cup {Live(v) : v \in ReduceChoices(RefineInput(pure_trans_reduced,
                                                                          multi))} :
          LET copied == Live(RefineInput(pure_trans_reduced, multi))
              m1 == NoteRead(NoteAssign(mem, tmp_vec), pure_trans_reduced)
              m2 == NoteAssign(NoteFree(m1, pure_trans_reduced),
                               Release(pure_trans_reduced))
              m3 == NoteFree(NoteFree(NoteRead(m2, copied), copied), vectors)
          IN  /\ IF IsNull(out)
                 THEN /\ LeaveStageA(m3, out, Release(vectors), Release(copied))
                      /\ multi' = 0
                      /\ pc' = "free_trans"
                 ELSE /\ pure_trans_reduced' = out
                      /\ tmp_vec' = Release(copied)
                      /\ vectors' = Release(vectors)
                      /\ mem' = m3
                      /\ tolerance_i' = Reduce(tolerance_i)
                      /\ attempt_i' = attempt_i + 1
                      /\ pc' = "candidates"
                      /\ UNCHANGED multi
              /\ ran' = Ran({<<"sym_reduce_pure_translation", tolerance_i>>})
              /\ UNCHANGED oom
  /\ UNCHANGED <<arg, attempt, tolerance, primitive, pure_trans, prim_lat, smallest_lat,
                 result, heap, nFinder, trim_failed>>

(* line 284: del_delaunay_reduce(smallest_lat, prim_lat, symprec) *)
DelaunayReduce ==
  /\ pc = "reduce"
  /\ \/ /\ pc' = "free_trans"
        /\ LeaveCell
     \/ \E lat \in DelaunayChoices(prim_lat) :
          /\ smallest_lat' = lat
          /\ pc' = "trim"
          /\ UNCHANGED <<multi, prim_lat>>
  /\ ran' = Ran({<<"del_delaunay_reduce", tolerance>>})
  /\ UNCHANGED <<arg, attempt, tolerance, primitive, pure_trans, attempt_i, tolerance_i,
                 pure_trans_reduced, vectors, tmp_vec, result, heap, mem, oom, nFinder,
                 trim_failed>>

(* lines 289-297: cel_trim_cell(mapping_table, smallest_lat, cell, symprec) *)
TrimCell ==
  /\ pc = "trim"
  /\ \/ \E junk \in TrimJunk(primitive.mapping_table.vec) :
          /\ primitive' = [primitive EXCEPT !.mapping_table = Live(junk)]
          /\ pc' = "free_trans"
          /\ trim_failed' = TRUE
          /\ UNCHANGED <<pure_trans, result, heap, mem>>
     \/ \E m \in TrimMappings(arg.cell.size) :
          /\ Found([primitive EXCEPT
                      !.cell = TrimmedCell(arg.cell, smallest_lat, m),
                      !.mapping_table = Live(m)])
          /\ heap' = [heap EXCEPT !.cell = "live"]
          /\ mem' = NoteFree(mem, pure_trans)
          /\ UNCHANGED trim_failed
  /\ LeaveCell
  /\ ran' = Ran({<<"cel_trim_cell", tolerance>>})
  /\ UNCHANGED <<arg, attempt, tolerance, attempt_i, tolerance_i, pure_trans_reduced,
                 vectors, tmp_vec, oom, nFinder>>

(* lines 196-197: the attempt failed, its translation list is released *)
FreePureTrans ==
  /\ pc = "free_trans"
  /\ pure_trans' = Release(pure_trans)
  /\ mem' = NoteFree(mem, pure_trans)
  /\ pc' = "cont"
  /\ UNCHANGED <<arg, attempt, tolerance, primitive, locals_i, prim_lat, smallest_lat,
                 result, heap, ran, oom, nFinder, trim_failed>>

(* lines 199-203: cont: tolerance *= REDUCE_RATE, and attempt++ *)
Cont ==
  /\ pc = "cont"
  /\ tolerance' = Reduce(tolerance)
  /\ attempt' = attempt + 1
  /\ pc' = "attempt"
  /\ UNCHANGED <<arg, primitive, pure_trans, locals_i, prim_lat, smallest_lat, result,
                 heap, mem, ran, oom, nFinder, trim_failed>>

Next ==
  \/ AllocPrimitive
  \/ GetPureTranslation
  \/ Exhausted
  \/ SmallestLattice
  \/ StageACopy
  \/ Candidates
  \/ StageAExhausted
  \/ Search
  \/ Refine
  \/ DelaunayReduce
  \/ TrimCell
  \/ FreePureTrans
  \/ Cont

Spec == Init /\ [][Next]_vars

(* ------------------------------------------------------------------ *)
(* Properties of prm_get_primitive.                                    *)
(* ------------------------------------------------------------------ *)
(* the call has returned a record *)
Succeeded == pc = "done" /\ result.st = "live"

(* the list pointers of get_primitive and of its callees *)
ListPointers == {pure_trans, pure_trans_reduced, vectors, tmp_vec}

(* the steps of the accepted attempt and the tolerance each ran at *)
StepNames ==
  {"sym_get_pure_translation", "get_primitive_lattice_vectors_iterative",
   "get_primitive_lattice_vectors", "sym_reduce_pure_translation",
   "del_delaunay_reduce", "cel_trim_cell"}

(* C1: the call is all-or-nothing.  When it has returned, either the     *)
(* result is a record whose cell is set and whose tolerance, angle       *)
(* tolerance and transform have been written, all its blocks allocated,  *)
(* or the result is NULL and no block of the record is left allocated;   *)
(* a record with a NULL cell is never returned.                          *)
C1_AllOrNothing ==
  pc = "done" =>
    \/ /\ result.st = "live"
       /\ result.cell # NULL
       /\ result.tolerance = tolerance
       /\ result.tolerance > 0
       /\ result.angle_tolerance = arg.angle_tolerance
       /\ result.t_mat # NULL
       /\ result.t_mat.vec # ZeroMat
       /\ heap.record = "live"
       /\ heap.t_mat = "live"
       /\ heap.cell = "live"
       /\ heap.mapping_table = "live"
    \/ /\ result = NULL
       /\ primitive = NULL
       /\ \A b \in DOMAIN heap : heap[b] \in {"none", "freed"}
       /\ heap.cell = "none"

(* C1 witness: every attempt failed, one of them in the trimmer, and the *)
(* record was released before NULL was returned                          *)
C1_Witness ==
  /\ pc = "done"
  /\ result = NULL
  /\ attempt = NUM_ATTEMPT
  /\ trim_failed
  /\ heap.record = "freed"

(* C2: for a returned record, the transform times the original lattice   *)
(* is the lattice of the primitive cell: T . L = P.                      *)
C2_TransformConsistent ==
  Succeeded =>
    mat_multiply_matrix_d3(result.t_mat.vec, arg.cell.lattice) = result.cell.lattice

(* C2 witness: a record is returned whose lattice differs from the       *)
(* original lattice in volume, so that T is not unimodular               *)
C2_Witness ==
  /\ Succeeded
  /\ mat_Dabs(mat_get_determinant_d3(result.cell.lattice))
       # mat_Dabs(mat_get_determinant_d3(arg.cell.lattice))

(* the order of the translation group the accepted attempt used: 1 on    *)
(* the trivial path, else the multi Stage A returned                     *)
GroupOrder ==
  IF <<"size", 1>> \in ran THEN 1
  ELSE CHOOSE m \in {e[2] : e \in {x \in ran : x[1] = "multi"}} : TRUE

(* |det(original lattice)| / |det(primitive lattice)| of a returned record *)
VolumeRatio ==
  RDiv(mat_Dabs(mat_get_determinant_d3(arg.cell.lattice)),
       mat_Dabs(mat_get_determinant_d3(result.cell.lattice)))

(* C3: for a returned record, the ratio of the volume of the original    *)
(* lattice to that of the primitive lattice rounds to the order of the   *)
(* translation group in use when the basis was accepted (1 on the        *)
(* trivial path), the lattice reducer preserving volume.                 *)
C3_VolumeInvariant ==
  Succeeded =>
    /\ (<<"size", 1>> \in ran \/ Cardinality({x \in ran : x[1] = "multi"}) = 1)
    /\ mat_Nint(VolumeRatio) = GroupOrder

(* C3 witness: a record is returned from a group of order 3 whose volume *)
(* ratio is not an integer and rounds to 3                               *)
C3_Witness ==
  /\ Succeeded
  /\ <<"multi", 3>> \in ran
  /\ VolumeRatio[2] # 1

(* C4: for a returned record, every entry of the mapping lies in         *)
(* 0..(primitive size - 1) and every value of that range is the image of *)
(* an original index; no entry holds the -1 of the allocation, failed    *)
(* runs of the trimmer on the same buffer notwithstanding.               *)
C4_MappingComplete ==
  Succeeded =>
    LET m == result.mapping_table.vec
    IN  /\ DOMAIN m = 1..arg.cell.size
        /\ \A i \in DOMAIN m : m[i] \in 0..(result.cell.size - 1)
        /\ \A v \in 0..(result.cell.size - 1) : \E i \in DOMAIN m : m[i] = v

(* C4 witness: a record is returned by a call in which an earlier        *)
(* attempt ran the trimmer on the buffer and failed                      *)
C4_Witness == Succeeded /\ trim_failed /\ <<"cel_trim_cell", tolerance>> \in ran

(* C5: when the translation list of the accepted attempt has size 1, the *)
(* returned cell has as many atoms as the input, the mapping is the      *)
(* identity, the types and the order of the atoms are those of the       *)
(* input, and neither the trimmer nor Stage A ran on that attempt.       *)
C5_TrivialGroup ==
  (Succeeded /\ <<"size", 1>> \in ran) =>
    LET trans_mat == mat_multiply_matrix_d3(mat_inverse_matrix_d3(result.cell.lattice),
                                            arg.cell.lattice)
    IN  /\ result.cell.size = arg.cell.size
        /\ \A i \in 1..arg.cell.size : result.mapping_table.vec[i] = i - 1
        /\ result.cell.types = arg.cell.types
        /\ \A i \in 1..arg.cell.size :
             result.cell.position[i] = FoldedPosition(trans_mat, arg.cell.position[i])
        /\ \A e \in ran : e[1] \notin {"cel_trim_cell",
                                       "get_primitive_lattice_vectors_iterative",
                                       "get_primitive_lattice_vectors"}

(* C5 witness: a record is returned on the trivial path for the cell of  *)
(* two atom types, after an attempt that went through the trimmer        *)
C5_Witness ==
  /\ Succeeded
  /\ <<"size", 1>> \in ran
  /\ trim_failed
  /\ arg.cell = CellB

(* a measure of what the call may still do: the attempts left, then the  *)
(* iterations of Stage A left in the attempt, then the steps left in the *)
(* iteration; AttemptWeight exceeds the measure of any one attempt       *)
AttemptWeight == 3 * NUM_ATTEMPT + 10

Variant ==
  CASE pc = "alloc" -> (NUM_ATTEMPT + 1) * AttemptWeight
    [] pc = "done" -> 0
    [] OTHER ->
         (NUM_ATTEMPT - attempt) * AttemptWeight
         + (CASE pc = "attempt" -> AttemptWeight - 1
              [] pc = "dispatch" -> AttemptWeight - 2
              [] pc = "candidates" -> 5 + 3 * (NUM_ATTEMPT - attempt_i) + 2
              [] pc = "search" -> 5 + 3 * (NUM_ATTEMPT - attempt_i) + 1
              [] pc = "refine" -> 5 + 3 * (NUM_ATTEMPT - attempt_i)
              [] pc = "reduce" -> 4
              [] pc = "trim" -> 3
              [] pc = "free_trans" -> 2
              [] pc = "cont" -> 1)

(* a step is possible; Search, an IF-THEN-ELSE on the outcome of Stage   *)
(* B, is possible wherever control is at it                              *)
CanStep ==
  \/ pc = "search"
  \/ ENABLED (\/ AllocPrimitive \/ GetPureTranslation \/ Exhausted \/ SmallestLattice
              \/ StageACopy \/ Candidates \/ StageAExhausted \/ Refine
              \/ DelaunayReduce \/ TrimCell \/ FreePureTrans \/ Cont)

(* C6: the call terminates.  Every step lowers a measure that stays a    *)
(* natural number, and until the call has returned a step is possible,   *)
(* so the call returns after finitely many steps; the translation finder *)
(* is asked at most NUM_ATTEMPT times, an attempt runs at most           *)
(* NUM_ATTEMPT iterations of Stage A, and when all NUM_ATTEMPT attempts  *)
(* failed the result is NULL.                                            *)
C6_Terminates ==
  /\ [][Variant' < Variant]_vars
  /\ [](/\ Variant \in Nat
        /\ pc # "done" => CanStep
        /\ nFinder <= NUM_ATTEMPT
        /\ attempt_i <= NUM_ATTEMPT
        /\ pc \in {"search", "refine"} => attempt_i < NUM_ATTEMPT
        /\ (pc = "done" /\ attempt = NUM_ATTEMPT) => result = NULL)

(* C6 witness: the finder was asked NUM_ATTEMPT times, no attempt        *)
(* succeeded and failure is reported                                     *)
C6_Witness ==
  /\ pc = "done"
  /\ nFinder = NUM_ATTEMPT
  /\ attempt = NUM_ATTEMPT
  /\ result = NULL

(* symprec multiplied k times by REDUCE_RATE *)
RECURSIVE Decayed(_, _)
Decayed(symprec, k) ==
  IF k = 0 THEN symprec ELSE (Decayed(symprec, k - 1) * ReduceNum) \div ReduceDen

(* the record was allocated: tolerance and attempt are set *)
InLoop == pc # "alloc" /\ oom # "record"

(* C7: on attempt k the finder is given symprec decayed k times; every   *)
(* failed attempt, of whatever kind, decays the tolerance once; the      *)
(* tolerance of a returned record is that of the accepted attempt, equal *)
(* to symprec when the first attempt succeeded and below it otherwise.   *)
C7_ToleranceSchedule ==
  /\ InLoop => tolerance = Decayed(arg.symprec, attempt)
  /\ InLoop => nFinder = IF pc = "attempt" \/ (pc = "done" /\ result = NULL)
                          THEN attempt ELSE attempt + 1
  /\ \A e \in ran : e[1] = "sym_get_pure_translation" =>
                      e[2] = Decayed(arg.symprec, attempt)
  /\ Succeeded =>
       /\ result.tolerance = Decayed(arg.symprec, attempt)
       /\ (attempt = 0 => result.tolerance = arg.symprec)
       /\ (attempt > 0 => result.tolerance < arg.symprec)

(* C7 witness: a record is returned by the third attempt, the two before *)
(* it having failed                                                      *)
C7_Witness ==
  /\ Succeeded
  /\ attempt = 2
  /\ result.tolerance < arg.symprec

(* C8 as stated: once an allocation has failed, there is no further      *)
(* decay of the tolerance, no further attempt and no further call of the *)
(* finder.                                                               *)
C8_OomAbortsAtOnce ==
  [][oom # "none" =>
       /\ tolerance' = tolerance
       /\ attempt' = attempt
       /\ nFinder' = nFinder]_vars

(* C8: only the failure to allocate the result record ends the call at   *)
(* once, with NULL and before any call of the finder.  An allocation     *)
(* failure inside an attempt fails that attempt alone: Stage A's lists   *)
(* are released and control goes on to release the translation list, the *)
(* tolerance then decays once, and the next attempt asks the finder      *)
(* again while attempts remain.                                          *)
C8_OomFailsAttempt ==
  [][/\ oom' = "record" =>
          /\ pc' = "done"
          /\ result' = NULL
          /\ nFinder' = 0
     /\ (oom = "none" /\ oom' = "attempt") =>
          /\ pc' = "free_trans"
          /\ \A p \in {pure_trans_reduced', vectors', tmp_vec'} : p = NULL
          /\ tolerance' = tolerance
          /\ attempt' = attempt
     /\ (oom = "attempt" /\ pc = "free_trans") =>
          /\ pc' = "cont"
          /\ pure_trans' = NULL
     /\ (oom = "attempt" /\ pc = "cont") =>
          /\ tolerance' = Decayed(arg.symprec, attempt + 1)
          /\ attempt' = attempt + 1
          /\ pc' = "attempt"
     /\ (oom = "attempt" /\ pc = "attempt") =>
          IF attempt < NUM_ATTEMPT
          THEN nFinder' = nFinder + 1 /\ pc' # "done"
          ELSE result' = NULL /\ pc' = "done"]_vars

(* C8 witness: an allocation inside the second attempt failed, the       *)
(* tolerance has decayed for it and the third attempt is about to start  *)
C8_Witness ==
  /\ oom = "attempt"
  /\ pc = "attempt"
  /\ attempt = 2
  /\ nFinder = 2
  /\ tolerance < arg.symprec

(* C9: no list is released twice, read after its release or dropped      *)
(* while allocated, and at the return, successful or not, no list is     *)
(* still allocated.                                                      *)
C9_ListsReleased ==
  /\ mem = Clean
  /\ pc = "done" => \A p \in ListPointers : p.st # "live"

(* C9 witness: a record is returned by an attempt in which Stage A       *)
(* refined the translations, so that every kind of list was in use       *)
C9_Witness ==
  /\ Succeeded
  /\ \E e \in ran : e[1] = "sym_reduce_pure_translation"
  /\ nFinder > 1

(* C10 as stated: every step of the accepted attempt ran at the          *)
(* tolerance the returned record holds.                                  *)
C10_RecordedToleranceUsed ==
  Succeeded => \A e \in ran : e[1] \in StepNames => e[2] = result.tolerance

(* control is inside get_primitive_lattice_vectors_iterative *)
InStageA == pc \in {"candidates", "search", "refine"}

(* C11 as stated: within one run of Stage A the tolerance is the one     *)
(* passed in, at every iteration.                                        *)
C11_NoDecayInStage == InStageA => tolerance_i = tolerance

(* C11: within one run of Stage A the tolerance decays once for every    *)
(* refinement that succeeded: iteration n (from 0) runs its Stage B      *)
(* search and its refinement at the tolerance passed in multiplied n     *)
(* times by REDUCE_RATE; only iteration 0 runs at the value passed in.   *)
C11_DecayPerIteration ==
  /\ InStageA => tolerance_i = Decayed(tolerance, attempt_i)
  /\ InStageA =>
       \A e \in ran :
         e[1] \in {"get_primitive_lattice_vectors", "sym_reduce_pure_translation"} =>
           \E n \in 0..attempt_i : e[2] = Decayed(tolerance, n)
  /\ (InStageA /\ attempt_i > 0) => tolerance_i < tolerance

(* C11 witness: the third iteration of a Stage A run is about to search, *)
(* below the tolerance passed in                                         *)
C11_Witness ==
  /\ pc = "search"
  /\ attempt_i = 2
  /\ tolerance_i < tolerance
  /\ <<"sym_reduce_pure_translation", Decayed(tolerance, 1)>> \in ran

(* Stage B as Stage A is about to call it (control at the search) *)
StageB == get_primitive_lattice_vectors(vectors.vec, arg.cell, tolerance_i)

(* the index triples i < j < k of the candidate list, 0-based *)
Triples ==
  {t \in (0..(Len(vectors.vec) - 1)) \X (0..(Len(vectors.vec) - 1))
         \X (0..(Len(vectors.vec) - 1)) : t[1] < t[2] /\ t[2] < t[3]}

(* V0: the volume of the original lattice *)
InitialVolume == mat_Dabs(mat_get_determinant_d3(arg.cell.lattice))

(* V: the volume of the triple t of the candidate list *)
VolumeOf(t) == TripleVolume(vectors.vec, arg.cell.lattice, t[1], t[2], t[3])

(* the order of the translation group the candidates were built from *)
OrderInUse == Len(pure_trans_reduced.vec)

(* C12 as stated: the triple Stage B accepts has round(V0 / V) equal to  *)
(* the group order minus two.                                            *)
C12_OrderMinusTwo ==
  (pc = "search" /\ StageB.ok) =>
    mat_Nint(RDiv(InitialVolume, VolumeOf(StageB.triple))) = OrderInUse - 2

(* C12: the triple Stage B accepts has V > tolerance and round(V0 / V)   *)
(* equal to the group order itself, which is the number of candidates    *)
(* minus two.                                                            *)
C12_OrderItself ==
  pc = "search" =>
    LET found == StageB
        V == VolumeOf(found.triple)
    IN  /\ Len(vectors.vec) = OrderInUse + 2
        /\ multi = OrderInUse
        /\ found.ok =>
             /\ RLess(TolD(tolerance_i), V)
             /\ mat_Nint(RDiv(InitialVolume, V)) = OrderInUse

(* C12 witness: Stage B is about to accept a triple for a group of order *)
(* 3, whose ratio V0 / V rounds to 3 and not to 1                        *)
C12_Witness ==
  /\ pc = "search"
  /\ StageB.ok
  /\ OrderInUse = 3
  /\ mat_Nint(RDiv(InitialVolume, VolumeOf(StageB.triple))) = 3

(* the triple t comes before the triple u in the order of the loops *)
LexLess(t, u) ==
  \/ t[1] < u[1]
  \/ t[1] = u[1] /\ t[2] < u[2]
  \/ t[1] = u[1] /\ t[2] = u[2] /\ t[3] < u[3]

(* the triple t of the candidate list passes the test of Stage B *)
Passes(t) ==
  TriplePasses(vectors.vec, arg.cell.lattice, tolerance_i, t[1], t[2], t[3])

(* C13: Stage B is a first-match search.  It succeeds exactly when some  *)
(* triple i < j < k of the candidates passes the test, it then selects   *)
(* the passing triple that is least in lexicographic order, the selected *)
(* triple never has V <= tolerance, and while no search has succeeded    *)
(* prim_lattice is left unwritten.                                       *)
C13_FirstMatch ==
  /\ pc = "search" =>
       LET found == StageB
           V == VolumeOf(found.triple)
       IN  /\ found.ok =>
                /\ found.triple \in Triples
                /\ Passes(found.triple)
                /\ \A t \in Triples : LexLess(t, found.triple) => ~Passes(t)
                /\ ~RLess(V, TolD(tolerance_i))
                /\ V # TolD(tolerance_i)
           /\ ~found.ok => \A t \in Triples : ~Passes(t)
  /\ InStageA => prim_lat = ZeroMat

(* C13 witness: in a later iteration of a Stage A run, Stage B is about  *)
(* to select a triple after passing over an earlier triple whose volume  *)
(* does not exceed the tolerance                                         *)
C13_Witness ==
  /\ pc = "search"
  /\ attempt_i > 0
  /\ StageB.ok
  /\ \E t \in Triples :
       /\ LexLess(t, StageB.triple)
       /\ ~RLess(TolD(tolerance_i), VolumeOf(t))

(* the accepted triple as the columns of a matrix (relative_lattice) *)
AcceptedRelative == RelativeLattice(vectors.vec, StageB.triple)

(* the inverse of the accepted triple matrix, rounded entry by entry *)
RoundedInverse == mat_cast_matrix_3d_to_3i(mat_inverse_matrix_d3(AcceptedRelative))

(* the integer determinant check of line 459 *)
IntegerCheck == Abs(mat_get_determinant_i3(RoundedInverse)) = Len(vectors.vec) - 2

(* C14: once a triple passes, Stage B returns success.  When the rounded *)
(* inverse of the triple matrix passes the integer determinant check the *)
(* relative lattice is the inverse of that integer matrix, otherwise it  *)
(* is the raw triple; prim_lattice is the original lattice times the     *)
(* relative lattice in both cases.                                       *)
C14_Cleanup ==
  pc = "search" =>
    LET found == StageB
        relative == RelativeLattice(vectors.vec, found.triple)
        rounded == mat_cast_matrix_3d_to_3i(mat_inverse_matrix_d3(relative))
        checked == Abs(mat_get_determinant_i3(rounded)) = Len(vectors.vec) - 2
    IN  /\ found.ok \/ \A t \in Triples : ~Passes(t)
        /\ found.ok =>
             found.prim_lattice =
               mat_multiply_matrix_d3(
                 arg.cell.lattice,
                 IF checked
                 THEN mat_inverse_matrix_d3(mat_cast_matrix_3i_to_3d(rounded))
                 ELSE relative)

(* C14 witness: Stage B is about to accept a triple whose rounded        *)
(* inverse fails the integer check, so that the raw triple is kept       *)
C14_Witness ==
  /\ pc = "search"
  /\ StageB.ok
  /\ ~IntegerCheck
  /\ StageB.prim_lattice = mat_multiply_matrix_d3(arg.cell.lattice, AcceptedRelative)

(* the vectors of a list, as a set *)
Elements(vec) == {vec[n] : n \in DOMAIN vec}

(* C15: Stage A stops at the first iteration whose Stage B search        *)
(* succeeds and returns the size of the translation list that iteration  *)
(* used; after a failed search the working list becomes what refinement  *)
(* returns for the current translations, none of it a vector that was    *)
(* not among them; Stage A fails at once when refinement fails, and      *)
(* fails when NUM_ATTEMPT iterations have passed without a success.      *)
C15_StageALoop ==
  [][/\ (pc = "candidates" /\ pc' = "search") =>
          /\ attempt_i < NUM_ATTEMPT
          /\ multi' = Len(pure_trans_reduced.vec)
     /\ (pc = "search" /\ StageB.ok) =>
          /\ pc' = "reduce"
          /\ multi' = Len(pure_trans_reduced.vec)
          /\ <<"multi", Len(pure_trans_reduced.vec)>> \in ran'
          /\ prim_lat' = StageB.prim_lattice
     /\ (pc = "search" /\ ~StageB.ok) =>
          /\ pc' = "refine"
          /\ pure_trans_reduced' = pure_trans_reduced
     /\ (pc = "refine" /\ pc' = "candidates") =>
          /\ pure_trans_reduced'.vec \in ReduceChoices(pure_trans_reduced.vec)
          /\ Elements(pure_trans_reduced'.vec) \subseteq Elements(pure_trans_reduced.vec)
          /\ attempt_i' = attempt_i + 1
     /\ (pc = "refine" /\ pc' # "candidates") =>
          /\ pc' = "free_trans"
          /\ multi' = 0
     /\ (pc = "candidates" /\ attempt_i = NUM_ATTEMPT) =>
          /\ pc' = "free_trans"
          /\ multi' = 0]_vars

(* C15 witness: Stage A has returned 2, the size of a list refined from  *)
(* the 3 translations the attempt began with                             *)
C15_Witness ==
  /\ pc = "reduce"
  /\ <<"size", 3>> \in ran
  /\ multi = 2
  /\ <<"multi", 2>> \in ran
  /\ \E e \in ran : e[1] = "sym_reduce_pure_translation"

(* ------------------------------------------------------------------ *)
(* Single calls of get_translation_candidates, prm_free_primitive and  *)
(* prm_alloc_primitive, on arguments wider than prm_get_primitive      *)
(* gives them.  arg holds the argument, result what the call leaves.   *)
(* ------------------------------------------------------------------ *)
(* a translation list has at most MaxTrans entries *)
MaxTrans == 4
(* prm_alloc_primitive is called with a size of -1..MaxSize *)
MaxSize == 2

(* the vectors the lists are made of *)
UnitVectors ==
  {ZeroVec, V3(Half, RZero, RZero), V3(RZero, Half, RZero), V3(Half, Half, Half)}

(* the lists of n vectors *)
RECURSIVE ListsOfLen(_)
ListsOfLen(n) ==
  IF n = 0 THEN {<<>>}
  ELSE {Append(l, v) : l \in ListsOfLen(n - 1), v \in UnitVectors}

(* translation lists: the empty list, and the lists led by the identity *)
UnitLists ==
  {<<>>} \cup UNION {{<<ZeroVec>> \o l : l \in ListsOfLen(n)} : n \in 0..(MaxTrans - 1)}

(* records as prm_free_primitive may meet them: each part NULL or set *)
UnitRecords ==
  {NULL} \cup
  {[st |-> "live", cell |-> c, mapping_table |-> m, size |-> 2, tolerance |-> 0,
    angle_tolerance |-> -1, t_mat |-> t] :
     c \in {NULL, CellA}, m \in {NULL, Live(<<-1, -1>>)}, t \in {NULL, Live(ZeroMat)}}

(* the blocks of the record p *)
BlocksOf(p) ==
  IF IsNull(p) THEN NoBlocks
  ELSE [record |-> "live",
        t_mat |-> IF p.t_mat # NULL THEN "live" ELSE "none",
        mapping_table |-> IF p.mapping_table # NULL THEN "live" ELSE "none",
        cell |-> IF p.cell # NULL THEN "live" ELSE "none"]

UnitInit ==
  /\ \/ /\ pc = "call_candidates"
        /\ arg \in {[pure_trans |-> l] : l \in UnitLists}
        /\ heap = NoBlocks
     \/ /\ pc = "call_free"
        /\ arg \in {[primitive |-> p] : p \in UnitRecords}
        /\ heap = BlocksOf(arg.primitive)
     \/ /\ pc = "call_alloc"
        /\ arg \in {[size |-> n] : n \in (-1)..MaxSize}
        /\ heap = NoBlocks
  /\ attempt = 0
  /\ tolerance = 0
  /\ primitive = NULL
  /\ pure_trans = NULL
  /\ attempt_i = 0
  /\ tolerance_i = 0
  /\ multi = 0
  /\ pure_trans_reduced = NULL
  /\ vectors = NULL
  /\ tmp_vec = NULL
  /\ prim_lat = ZeroMat
  /\ smallest_lat = ZeroMat
  /\ result = Running
  /\ mem = Clean
  /\ ran = {}
  /\ oom = "none"
  /\ trim_failed = FALSE
  /\ nFinder = 0

(* the variables a single call leaves alone *)
unit_rest ==
  <<arg, attempt, tolerance, primitive, pure_trans, attempt_i, tolerance_i, multi,
    pure_trans_reduced, vectors, tmp_vec, prim_lat, smallest_lat, mem, ran,
    trim_failed, nFinder>>

(* the write w falls outside the m + 2 slots allocated at line 479 *)
OutOfBounds(w, m) == w.idx < 0 \/ w.idx > m + 1

(* vectors = get_translation_candidates(pure_trans): the writes made and  *)
(* the list returned; after a write outside the block the list is either  *)
(* as the writes inside it left it, or overwritten                        *)
CallCandidates ==
  /\ pc = "call_candidates"
  /\ LET w == CandidateWrites(arg.pure_trans)
         made == get_translation_candidates(arg.pure_trans)
         wild == \E x \in DOMAIN w : OutOfBounds(w[x], Len(arg.pure_trans))
     IN  \E v \in {made} \cup (IF wild THEN {<<"overwritten">>} ELSE {}) :
           result' = [writes |-> w, vectors |-> v]
  /\ pc' = "returned"
  /\ UNCHANGED <<unit_rest, heap, oom>>

(* prm_free_primitive(primitive): the blocks released, in order *)
CallFree ==
  /\ pc = "call_free"
  /\ result' = [order |-> FreeOrder(arg.primitive)]
  /\ heap' = prm_free_primitive(heap, arg.primitive)
  /\ pc' = "returned"
  /\ UNCHANGED <<unit_rest, oom>>

(* primitive = prm_alloc_primitive(size), one of its mallocs failing or   *)
(* none                                                                   *)
CallAlloc ==
  /\ pc = "call_alloc"
  /\ \E fail \in {"none"} \cup {AllocSteps(arg.size)[x] : x \in DOMAIN AllocSteps(arg.size)} :
       /\ result' = prm_alloc_primitive(arg.size, fail).ptr
       /\ heap' = prm_alloc_primitive(arg.size, fail).heap
       /\ oom' = fail
  /\ pc' = "returned"
  /\ UNCHANGED unit_rest

UnitNext ==
  \/ CallCandidates
  \/ CallFree
  \/ CallAlloc

UnitSpec == UnitInit /\ [][UnitNext]_vars

(* a call of get_translation_candidates has returned *)
CandidatesReturned == pc = "returned" /\ "pure_trans" \in DOMAIN arg

(* C16: for a translation list of m >= 1 entries the candidates are      *)
(* exactly m + 2 vectors: the translations 1..m-1 in their order, then   *)
(* (1,0,0), (0,1,0), (0,0,1), and every write falls inside the m + 2     *)
(* slots allocated; for a list of 0 entries a write falls outside them.  *)
C16_Candidates ==
  CandidatesReturned =>
    LET m == Len(arg.pure_trans)
    IN  /\ m >= 1 =>
             /\ Len(result.vectors) = m + 2
             /\ result.vectors =
                  SubSeq(arg.pure_trans, 2, m)
                  \o <<V3(ROne, RZero, RZero), V3(RZero, ROne, RZero), V3(RZero, RZero, ROne)>>
             /\ \A x \in DOMAIN result.writes : ~OutOfBounds(result.writes[x], m)
             /\ {result.writes[x].idx : x \in DOMAIN result.writes} = 0..(m + 1)
        /\ m = 0 =>
             \E x \in DOMAIN result.writes :
               /\ OutOfBounds(result.writes[x], 0)
               /\ result.writes[x].idx = -1

(* C16 witness: the call was given a list of 0 entries, wrote before the *)
(* first slot and what it returned was overwritten                       *)
C16_Witness ==
  /\ CandidatesReturned
  /\ Len(arg.pure_trans) = 0
  /\ result.vectors = <<"overwritten">>

(* a call of prm_free_primitive has returned *)
FreeReturned == pc = "returned" /\ "primitive" \in DOMAIN arg

(* the entries of order follow one another as they do in ref *)
InOrder(order, ref) ==
  LET rank(b) == CHOOSE n \in DOMAIN ref : ref[n] = b
  IN  \A x, y \in DOMAIN order : x < y => rank(order[x]) < rank(order[y])

(* C17 as stated: the parts are released in the order cell, mapping,     *)
(* transform.                                                            *)
C17_CellFirst ==
  FreeReturned => InOrder(result.order, <<"cell", "mapping_table", "t_mat", "record">>)

(* C17: the parts are released in the order mapping, transform, cell,    *)
(* and the record last.  Exactly the parts that are set are released,    *)
(* each once, whatever subset of them is NULL; for a NULL record nothing *)
(* is released.                                                          *)
C17_MappingFirst ==
  FreeReturned =>
    /\ InOrder(result.order, <<"mapping_table", "t_mat", "cell", "record">>)
    /\ \A x, y \in DOMAIN result.order : result.order[x] = result.order[y] => x = y
    /\ {result.order[x] : x \in DOMAIN result.order}
         = {b \in DOMAIN heap : BlocksOf(arg.primitive)[b] = "live"}
    /\ \A b \in DOMAIN heap :
         heap[b] = IF BlocksOf(arg.primitive)[b] = "live" THEN "freed" ELSE "none"
    /\ IsNull(arg.primitive) => result.order = <<>>

(* C17 witness: a record with all its parts set was released, the cell   *)
(* after the mapping and the transform                                   *)
C17_Witness ==
  /\ FreeReturned
  /\ result.order = <<"mapping_table", "t_mat", "cell", "record">>
  /\ heap.cell = "freed"

(* a call of prm_alloc_primitive has returned *)
AllocReturned == pc = "returned" /\ "size" \in DOMAIN arg

(* C18: a record prm_alloc_primitive(size) returns is empty: its cell is *)
(* NULL, its size mapping entries are all -1 (no mapping buffer when     *)
(* size <= 0), every transform entry is 0 and size is recorded; when one *)
(* of its allocations fails it returns NULL and every block allocated    *)
(* before the failure has been released.                                 *)
C18_AllocEmpty ==
  AllocReturned =>
    /\ oom = "none" =>
         /\ result.st = "live"
         /\ result.cell = NULL
         /\ result.size = arg.size
         /\ result.tolerance = 0
         /\ result.t_mat.st = "live"
         /\ \A i, j \in 1..3 : result.t_mat.vec[i][j] = <<0, 1>>
         /\ arg.size > 0 =>
              /\ result.mapping_table.st = "live"
              /\ Len(result.mapping_table.vec) = arg.size
              /\ \A i \in 1..arg.size : result.mapping_table.vec[i] = -1
              /\ heap.mapping_table = "live"
         /\ arg.size <= 0 =>
              /\ result.mapping_table = NULL
              /\ heap.mapping_table = "none"
         /\ heap.record = "live"
         /\ heap.t_mat = "live"
         /\ heap.cell = "none"
    /\ oom # "none" =>
         /\ result = NULL
         /\ \A b \in DOMAIN heap : heap[b] # "live" /\ heap[b] # "twice"
         /\ heap.record = IF oom = "record" THEN "none" ELSE "freed"
         /\ heap.t_mat = IF oom = "mapping_table" THEN "freed" ELSE "none"
         /\ heap.mapping_table = "none"

(* C18 witness: the allocation of the mapping buffer failed, and the     *)
(* record and its transform, allocated before, were released             *)
C18_Witness ==
  /\ AllocReturned
  /\ oom = "mapping_table"
  /\ result = NULL
  /\ heap.record = "freed"
  /\ heap.t_mat = "freed"
====
